---- MODULE Spec2Model ----
(***************************************************************************)
(* ol/render/Feature.js: RenderFeature, the read-only feature of a vector  *)
(* tile.  One feature is modelled: its fields, the module-level            *)
(* tmpTransform, and one action per method.                                *)
(*                                                                         *)
(* Numbers.  The program computes in IEEE doubles.  The model computes in  *)
(* integers and keeps to inputs on which both agree exactly: coordinates   *)
(* are even integers, consecutive vertices of a buffer are axis-aligned    *)
(* (every segment length is an integer without a square root), and every   *)
(* projection's world height is a multiple of its pixel height.  Every     *)
(* \div below is then an exact quotient.                                   *)
(*                                                                         *)
(* Arrays.  A JavaScript array is a sequence; the element at JavaScript    *)
(* index i is At(a, i) = a[i + 1], so offsets and ends keep the values     *)
(* they have in the source.                                                *)
(***************************************************************************)
EXTENDS Integers, Sequences, FiniteSets, TLC

\* ---------------------------------------------------------------- bounds
\* transform may write the buffer of the feature this many times
MaxTransforms == 1
\* the same, where repeated transforms are looked at (SpecRepeat)
MaxRepeats == 2
\* the same, counted over both features where two of them are called (SpecTwo)
MaxShared == 2

\* ------------------------------------------------------------- constants
\* getStride(): the stride of every buffer
Stride == 2

\* ol/geom/GeometryType
POINT == "Point"
LINE_STRING == "LineString"
POLYGON == "Polygon"
MULTI_POINT == "MultiPoint"
MULTI_LINE_STRING == "MultiLineString"
MULTI_POLYGON == "MultiPolygon"

\* ------------------------------------------------------ array primitives
At(a, i) == a[i + 1]

Min2(a, b) == IF a <= b THEN a ELSE b
Max2(a, b) == IF a >= b THEN a ELSE b
Abs(a) == IF a < 0 THEN -a ELSE a

\* ol/array extend(arr, data): arr with the elements of data pushed onto it
extend(arr, data) == arr \o data

\* ----------------------------------------------------------- ol/extent
\* createOrUpdateFromCoordinate(coordinate): [x, y, x, y] of the first pair
createOrUpdateFromCoordinate(coordinate) ==
    << At(coordinate, 0), At(coordinate, 1), At(coordinate, 0), At(coordinate, 1) >>

\* extendFlatCoordinates: the running min/max over the pairs of [offset, end)
RECURSIVE extendFlatCoordinates(_, _, _, _, _)
extendFlatCoordinates(extent, flatCoordinates, offset, end, stride) ==
    IF offset >= end THEN extent
    ELSE extendFlatCoordinates(
           << Min2(extent[1], At(flatCoordinates, offset)),
              Min2(extent[2], At(flatCoordinates, offset + 1)),
              Max2(extent[3], At(flatCoordinates, offset)),
              Max2(extent[4], At(flatCoordinates, offset + 1)) >>,
           flatCoordinates, offset + stride, end, stride)

\* createOrUpdateFromFlatCoordinates(flatCoordinates, offset, end, stride) on a
\* non-empty slice: the scan starts from the box of the slice's first pair
createOrUpdateFromFlatCoordinates(flatCoordinates, offset, end, stride) ==
    extendFlatCoordinates(
        << At(flatCoordinates, offset), At(flatCoordinates, offset + 1),
           At(flatCoordinates, offset), At(flatCoordinates, offset + 1) >>,
        flatCoordinates, offset + stride, end, stride)

getCenter(extent) ==
    << (extent[1] + extent[3]) \div 2, (extent[2] + extent[4]) \div 2 >>

getHeight(extent) == extent[4] - extent[2]

\* ------------------------------------------------ ol/geom/flat/interpolate
\* length of the axis-aligned segment from the pair at i to the next pair
SegmentLength(flatCoordinates, i, stride) ==
    Abs(At(flatCoordinates, i + stride) - At(flatCoordinates, i))
    + Abs(At(flatCoordinates, i + stride + 1) - At(flatCoordinates, i + 1))

\* total arc length of the polyline [offset, end)
RECURSIVE PathLength(_, _, _, _)
PathLength(flatCoordinates, offset, end, stride) ==
    IF offset + stride >= end THEN 0
    ELSE SegmentLength(flatCoordinates, offset, stride)
         + PathLength(flatCoordinates, offset + stride, end, stride)

\* walk the segments from the pair at i, walked being the length before it, up
\* to the segment in which the accumulated length reaches target; interpolate
\* linearly inside that segment
RECURSIVE WalkTo(_, _, _, _, _, _)
WalkTo(flatCoordinates, i, end, stride, walked, target) ==
    IF i + stride >= end
    THEN << At(flatCoordinates, i), At(flatCoordinates, i + 1) >>
    ELSE LET len == SegmentLength(flatCoordinates, i, stride)
         IN  IF len > 0 /\ walked + len >= target
             THEN << At(flatCoordinates, i)
                       + ((At(flatCoordinates, i + stride) - At(flatCoordinates, i))
                          * (target - walked)) \div len,
                     At(flatCoordinates, i + 1)
                       + ((At(flatCoordinates, i + stride + 1) - At(flatCoordinates, i + 1))
                          * (target - walked)) \div len >>
             ELSE WalkTo(flatCoordinates, i + stride, end, stride, walked + len, target)

\* interpolatePoint(flatCoordinates, offset, end, stride, fraction) for the one
\* fraction the feature uses, 1/2: the point at half the arc length of [offset, end)
interpolatePoint(flatCoordinates, offset, end, stride) ==
    LET length == PathLength(flatCoordinates, offset, end, stride)
    IN  IF length = 0
        THEN << At(flatCoordinates, offset), At(flatCoordinates, offset + 1) >>
        ELSE WalkTo(flatCoordinates, offset, end, stride, 0, length \div 2)

\* ---------------------------------------------- ol/geom/flat/interiorpoint
\* the exclusive end of the ring that holds the pair at index i
RingEnd(ends, i) ==
    LET later == { k \in 1..Len(ends) : ends[k] > i }
    IN  ends[CHOOSE k \in later : \A m \in later : k <= m]

\* the indexes at which an edge of one of the rings of ends starts
EdgeStarts(offset, ends, stride) ==
    IF Len(ends) = 0 THEN {}
    ELSE { i \in offset..(ends[Len(ends)] - 1) :
             (i - offset) % stride = 0 /\ i + stride < RingEnd(ends, i) }

\* the x at which the edge starting at i meets the horizontal line at y
\* (the edge is not horizontal)
EdgeXAt(flatCoordinates, i, stride, y) ==
    LET x1 == At(flatCoordinates, i)
        y1 == At(flatCoordinates, i + 1)
        x2 == At(flatCoordinates, i + stride)
        y2 == At(flatCoordinates, i + stride + 1)
    IN  IF y2 > y1 THEN x1 + ((y - y1) * (x2 - x1)) \div (y2 - y1)
                   ELSE x2 + ((y - y2) * (x1 - x2)) \div (y1 - y2)

\* the xs at which the scan-line at y meets the rings
Crossings(flatCoordinates, offset, ends, stride, y) ==
    { EdgeXAt(flatCoordinates, i, stride, y) :
        i \in { j \in EdgeStarts(offset, ends, stride) :
                  LET y1 == At(flatCoordinates, j + 1)
                      y2 == At(flatCoordinates, j + stride + 1)
                  IN  y1 # y2 /\ Min2(y1, y2) <= y /\ y <= Max2(y1, y2) } }

\* the elements of a finite set of integers in increasing order
RECURSIVE SortedSeq(_)
SortedSeq(S) ==
    IF S = {} THEN << >>
    ELSE LET m == CHOOSE a \in S : \A b \in S : a <= b
         IN  << m >> \o SortedSeq(S \ {m})

\* linearRingContainsXY: (x, y) is inside the ring [offset, end), by the parity
\* of the edges a ray to the right of it crosses
linearRingContainsXY(flatCoordinates, offset, end, stride, x, y) ==
    LET crossed == { i \in EdgeStarts(offset, << end >>, stride) :
                       LET y1 == At(flatCoordinates, i + 1)
                           y2 == At(flatCoordinates, i + stride + 1)
                       IN  /\ (y1 <= y /\ y < y2) \/ (y2 <= y /\ y < y1)
                           /\ EdgeXAt(flatCoordinates, i, stride, y) > x }
    IN  Cardinality(crossed) % 2 = 1

\* linearRingsContainsXY: inside the first ring (the outer boundary) and
\* outside every later ring (the holes)
linearRingsContainsXY(flatCoordinates, offset, ends, stride, x, y) ==
    /\ Len(ends) > 0
    /\ linearRingContainsXY(flatCoordinates, offset, ends[1], stride, x, y)
    /\ \A k \in 2..Len(ends) :
         ~ linearRingContainsXY(flatCoordinates, ends[k - 1], ends[k], stride, x, y)

\* over the intervals between consecutive crossings xs[k], xs[k + 1], from k on:
\* the midpoint of the widest interval whose midpoint is inside the polygon;
\* best = << found, x, width >> is the choice so far
RECURSIVE WidestInterval(_, _, _, _, _, _, _, _)
WidestInterval(flatCoordinates, offset, ends, stride, y, xs, k, best) ==
    IF k + 1 > Len(xs) THEN best
    ELSE LET width == xs[k + 1] - xs[k]
             x == (xs[k] + xs[k + 1]) \div 2
             better == /\ width > best[3]
                       /\ linearRingsContainsXY(flatCoordinates, offset, ends, stride, x, y)
         IN  WidestInterval(flatCoordinates, offset, ends, stride, y, xs, k + 1,
                            IF better THEN << TRUE, x, width >> ELSE best)

\* getInteriorPointOfArray(flatCoordinates, offset, ends, stride, flatCenters,
\* flatCentersOffset): the point on the scan-line through the seed center in
\* the middle of the widest interval inside the polygon; the seed center when
\* there is no such interval
getInteriorPointOfArray(flatCoordinates, offset, ends, stride, flatCenters, flatCentersOffset) ==
    LET y == At(flatCenters, flatCentersOffset + 1)
        xs == SortedSeq(Crossings(flatCoordinates, offset, ends, stride, y))
        best == WidestInterval(flatCoordinates, offset, ends, stride, y, xs, 1,
                               << FALSE, 0, -1 >>)
    IN  << IF best[1] THEN best[2] ELSE At(flatCenters, flatCentersOffset), y >>

\* ol/geom/flat/center linearRingss(flatCoordinates, offset, endss, stride):
\* for each polygon of endss, from the k-th on, the center of its extent
RECURSIVE linearRingssCenter(_, _, _, _, _)
linearRingssCenter(flatCoordinates, offset, endss, stride, k) ==
    IF k > Len(endss) THEN << >>
    ELSE LET ends == endss[k]
             end == ends[Len(ends)]
         IN  getCenter(createOrUpdateFromFlatCoordinates(flatCoordinates, offset, end, stride))
             \o linearRingssCenter(flatCoordinates, end, endss, stride, k + 1)

\* getInteriorPointsOfMultiArray(flatCoordinates, offset, endss, stride,
\* flatCenters): the interior point of each polygon of endss, from the k-th on,
\* seeded with its own center, in polygon order
RECURSIVE getInteriorPointsOfMultiArray(_, _, _, _, _, _)
getInteriorPointsOfMultiArray(flatCoordinates, offset, endss, stride, flatCenters, k) ==
    IF k > Len(endss) THEN << >>
    ELSE LET ends == endss[k]
         IN  getInteriorPointOfArray(flatCoordinates, offset, ends, stride,
                                     flatCenters, 2 * (k - 1))
             \o getInteriorPointsOfMultiArray(flatCoordinates, ends[Len(ends)], endss,
                                              stride, flatCenters, k + 1)

\* ------------------------------------------- ol/transform, ol/geom/flat/transform
\* create(): the identity
createTransform == << 1, 0, 0, 1, 0, 0 >>

\* compose(transform, dx1, dy1, sx, sy, angle, dx2, dy2) for angle = 0
\* (sin = 0, cos = 1): all six parameters are overwritten
composeTransform(transform, dx1, dy1, sx, sy, dx2, dy2) ==
    << sx, 0, 0, sy, dx2 * sx + dx1, dy2 * sy + dy1 >>

\* transform2D(flatCoordinates, offset, end, stride, transform, dest) with
\* dest = flatCoordinates: every pair of [offset, end) is overwritten in place
transform2D(flatCoordinates, offset, end, stride, transform) ==
    [ n \in 1..Len(flatCoordinates) |->
        LET i == n - 1
            p == i - ((i - offset) % stride)
            x == At(flatCoordinates, p)
            y == At(flatCoordinates, p + 1)
        IN  IF i < offset \/ i >= end THEN flatCoordinates[n]
            ELSE IF i = p THEN transform[1] * x + transform[3] * y + transform[5]
            ELSE transform[2] * x + transform[4] * y + transform[6] ]

\* ------------------------------------------------------------- ol/proj
\* the projections the registry knows: the pixel extent and the world extent
\* of each
Projections ==
    [ tileA |-> [ extent |-> << 0, 0, 4, 4 >>, worldExtent |-> << 0, 0, 8, 8 >> ],
      tileB |-> [ extent |-> << 2, 2, 6, 6 >>, worldExtent |-> << -4, 2, 0, 6 >> ] ]

\* what a caller may pass as a projection
ProjectionLike == { "tileA", "tileB", "EPSG:0" }

\* get(projectionLike): << the projection of that code >>; << >> stands for the
\* registry failing with a ProjectionNotFoundError when it knows no such code
getProjection(projectionLike) ==
    IF projectionLike \in DOMAIN Projections
    THEN << Projections[projectionLike] >> ELSE << >>

\* ------------------------------------------------------- the language
\* a value that is not there (undefined, null): a cache slot is << >> while
\* unset and << value >> once set, so that a set slot may hold any array, the
\* empty one too (in JavaScript every array is truthy)
Unset == << >>
IsSet(slot) == slot # Unset
undefined == "undefined"

\* what every object literal inherits from Object.prototype: obj[key] finds
\* these when obj has no own property key
ObjectPrototype == [ constructor |-> "function Object" ]

\* obj[key]: the own property, else the inherited one, else undefined
PropertyAccess(obj, key) ==
    IF key \in DOMAIN obj THEN obj[key]
    ELSE IF key \in DOMAIN ObjectPrototype THEN ObjectPrototype[key]
    ELSE undefined

\* ------------------------------------------------------- RenderFeature
\* new RenderFeature(type, flatCoordinates, ends, properties, id)
RenderFeature(type, flatCoordinates, ends, properties, id) ==
    [ extent_ |-> Unset,
      id_ |-> id,
      type_ |-> type,
      flatCoordinates_ |-> flatCoordinates,
      flatInteriorPoints_ |-> Unset,
      flatMidpoints_ |-> Unset,
      ends_ |-> ends,
      properties_ |-> properties ]

\* the result of a method call: the feature after it, the value returned and
\* the cache slots the call wrote
Result(self, ret, computed) == [ self |-> self, ret |-> ret, computed |-> computed ]

\* get(key)
get(self, key) == Result(self, PropertyAccess(self.properties_, key), {})

\* ExtentOf with the Point branch taken for every type: only the first pair counts
ExtentOf_firstPairOnly(type, flatCoordinates) ==
    createOrUpdateFromCoordinate(flatCoordinates)

\* the value getExtent() computes
ExtentOf(type, flatCoordinates) ==
    IF type = POINT
    THEN createOrUpdateFromCoordinate(flatCoordinates)
    ELSE createOrUpdateFromFlatCoordinates(flatCoordinates, 0, Len(flatCoordinates), Stride)

\* getExtent without the test of the slot: every call computes and stores
getExtent_recomputes(self) ==
    LET extent == ExtentOf(self.type_, self.flatCoordinates_)
    IN  Result([ self EXCEPT !.extent_ = << extent >> ], extent, { "extent_" })

\* getExtent()
getExtent(self) ==
    IF ~ IsSet(self.extent_)
    THEN LET extent == ExtentOf(self.type_, self.flatCoordinates_)
         IN  Result([ self EXCEPT !.extent_ = << extent >> ], extent, { "extent_" })
    ELSE Result(self, self.extent_[1], {})

\* getFlatInteriorPoint computing the extent for its seed itself, without the
\* call of getExtent(): the extent slot stays as it was
getFlatInteriorPoint_noExtentCache(self) ==
    IF ~ IsSet(self.flatInteriorPoints_)
    THEN LET flatCenter == getCenter(ExtentOf(self.type_, self.flatCoordinates_))
             point == getInteriorPointOfArray(
                          self.flatCoordinates_, 0, self.ends_, Stride, flatCenter, 0)
         IN  Result([ self EXCEPT !.flatInteriorPoints_ = << point >> ], point,
                    { "flatInteriorPoints_" })
    ELSE Result(self, self.flatInteriorPoints_[1], {})

\* getFlatInteriorPoint()
getFlatInteriorPoint(self) ==
    IF ~ IsSet(self.flatInteriorPoints_)
    THEN LET call == getExtent(self)
             flatCenter == getCenter(call.ret)
             point == getInteriorPointOfArray(
                          self.flatCoordinates_, 0, self.ends_, Stride, flatCenter, 0)
         IN  Result([ call.self EXCEPT !.flatInteriorPoints_ = << point >> ], point,
                    call.computed \cup { "flatInteriorPoints_" })
    ELSE Result(self, self.flatInteriorPoints_[1], {})

\* getFlatInteriorPoints()
getFlatInteriorPoints(self) ==
    IF ~ IsSet(self.flatInteriorPoints_)
    THEN LET flatCenters == linearRingssCenter(
                                self.flatCoordinates_, 0, self.ends_, Stride, 1)
             points == getInteriorPointsOfMultiArray(
                           self.flatCoordinates_, 0, self.ends_, Stride, flatCenters, 1)
         IN  Result([ self EXCEPT !.flatInteriorPoints_ = << points >> ], points,
                    { "flatInteriorPoints_" })
    ELSE Result(self, self.flatInteriorPoints_[1], {})

\* getFlatMidpoint()
getFlatMidpoint(self) ==
    IF ~ IsSet(self.flatMidpoints_)
    THEN LET point == interpolatePoint(
                          self.flatCoordinates_, 0, Len(self.flatCoordinates_), Stride)
         IN  Result([ self EXCEPT !.flatMidpoints_ = << point >> ], point,
                    { "flatMidpoints_" })
    ELSE Result(self, self.flatMidpoints_[1], {})

\* the loop of getFlatMidpoints() without "offset = end": every ring is read
\* from the start of the buffer
RECURSIVE MidpointsLoop_offsetStuck(_, _, _, _, _)
MidpointsLoop_offsetStuck(flatCoordinates, ends, i, offset, flatMidpoints) ==
    IF i > Len(ends) THEN flatMidpoints
    ELSE LET end == ends[i]
             midpoint == interpolatePoint(flatCoordinates, offset, end, Stride)
         IN  MidpointsLoop_offsetStuck(flatCoordinates, ends, i + 1, offset,
                                       extend(flatMidpoints, midpoint))

\* the loop of getFlatMidpoints() from its i-th turn on (i counts from 1):
\* flatMidpoints is what was pushed so far, offset the end of the ring before
RECURSIVE MidpointsLoop(_, _, _, _, _)
MidpointsLoop(flatCoordinates, ends, i, offset, flatMidpoints) ==
    IF i > Len(ends) THEN flatMidpoints
    ELSE LET end == ends[i]
             midpoint == interpolatePoint(flatCoordinates, offset, end, Stride)
         IN  MidpointsLoop(flatCoordinates, ends, i + 1, end,
                           extend(flatMidpoints, midpoint))

\* getFlatMidpoints without the test of the slot: every call computes and stores
getFlatMidpoints_unguarded(self) ==
    LET points == MidpointsLoop(self.flatCoordinates_, self.ends_, 1, 0, << >>)
    IN  Result([ self EXCEPT !.flatMidpoints_ = << points >> ], points,
               { "flatMidpoints_" })

\* getFlatMidpoints pushing each midpoint onto the coordinate buffer (the local
\* flatCoordinates) instead of onto this.flatMidpoints_
getFlatMidpoints_pushesOntoBuffer(self) ==
    IF ~ IsSet(self.flatMidpoints_)
    THEN LET points == MidpointsLoop(self.flatCoordinates_, self.ends_, 1, 0, << >>)
         IN  Result([ self EXCEPT !.flatMidpoints_ = << << >> >>,
                                  !.flatCoordinates_ = extend(@, points) ],
                    << >>, { "flatMidpoints_" })
    ELSE Result(self, self.flatMidpoints_[1], {})

\* getFlatMidpoints()
getFlatMidpoints(self) ==
    IF ~ IsSet(self.flatMidpoints_)
    THEN LET points == MidpointsLoop(self.flatCoordinates_, self.ends_, 1, 0, << >>)
         IN  Result([ self EXCEPT !.flatMidpoints_ = << points >> ], points,
                    { "flatMidpoints_" })
    ELSE Result(self, self.flatMidpoints_[1], {})

\* the accessors that only read a field
getId(self) == Result(self, self.id_, {})
getOrientedFlatCoordinates(self) == Result(self, self.flatCoordinates_, {})
getFlatCoordinates(self) == getOrientedFlatCoordinates(self)
getGeometry(self) == Result(self, self, {})
getProperties(self) == Result(self, self.properties_, {})
getStride(self) == Result(self, Stride, {})
getType(self) == Result(self, self.type_, {})
getEnds(self) == Result(self, self.ends_, {})

\* ProjectedExtent reading the world extent of the destination projection
ProjectedExtent_ofDestination(source, destination) == destination[1].worldExtent

\* the extent transform() takes the world position and size from
ProjectedExtent(source, destination) == source.worldExtent

\* transform composing scale, scale instead of scale, -scale: no flip of y
transform_noFlip(self, tmp, source, destination) ==
    LET found == getProjection(source)
    IN  IF found = << >>
        THEN [ self |-> self, tmpTransform |-> tmp, fault |-> "ProjectionNotFoundError" ]
        ELSE LET pixelExtent == found[1].extent
                 projectedExtent == found[1].worldExtent
                 scale == getHeight(projectedExtent) \div getHeight(pixelExtent)
                 composed == composeTransform(tmp, projectedExtent[1], projectedExtent[4],
                                              scale, scale, 0, 0)
             IN  [ self |-> [ self EXCEPT !.flatCoordinates_ =
                                transform2D(self.flatCoordinates_, 0,
                                            Len(self.flatCoordinates_), Stride, composed) ],
                   tmpTransform |-> composed,
                   fault |-> "none" ]

\* transform building its matrix onto what tmpTransform holds (as the
\* accumulating scale() and translate() of ol/transform do) instead of
\* overwriting it: the matrix of an earlier call stays in
transform_ontoTmp(self, tmp, source, destination) ==
    LET found == getProjection(source)
    IN  IF found = << >>
        THEN [ self |-> self, tmpTransform |-> tmp, fault |-> "ProjectionNotFoundError" ]
        ELSE LET pixelExtent == found[1].extent
                 projectedExtent == found[1].worldExtent
                 scale == getHeight(projectedExtent) \div getHeight(pixelExtent)
                 m == << scale, 0, 0, -scale, projectedExtent[1], projectedExtent[4] >>
                 composed == << tmp[1] * m[1] + tmp[3] * m[2],
                                tmp[2] * m[1] + tmp[4] * m[2],
                                tmp[1] * m[3] + tmp[3] * m[4],
                                tmp[2] * m[3] + tmp[4] * m[4],
                                tmp[1] * m[5] + tmp[3] * m[6] + tmp[5],
                                tmp[2] * m[5] + tmp[4] * m[6] + tmp[6] >>
             IN  [ self |-> [ self EXCEPT !.flatCoordinates_ =
                                transform2D(self.flatCoordinates_, 0,
                                            Len(self.flatCoordinates_), Stride, composed) ],
                   tmpTransform |-> composed,
                   fault |-> "none" ]

\* transform passing length - stride as the end: the last pair is not rewritten
transform_allButLast(self, tmp, source, destination) ==
    LET found == getProjection(source)
    IN  IF found = << >>
        THEN [ self |-> self, tmpTransform |-> tmp, fault |-> "ProjectionNotFoundError" ]
        ELSE LET pixelExtent == found[1].extent
                 projectedExtent == found[1].worldExtent
                 scale == getHeight(projectedExtent) \div getHeight(pixelExtent)
                 composed == composeTransform(tmp, projectedExtent[1], projectedExtent[4],
                                              scale, -scale, 0, 0)
             IN  [ self |-> [ self EXCEPT !.flatCoordinates_ =
                                transform2D(self.flatCoordinates_, 0,
                                            Len(self.flatCoordinates_) - Stride, Stride,
                                            composed) ],
                   tmpTransform |-> composed,
                   fault |-> "none" ]

\* transform with a handler around the lookup of the source: the failure of
\* the registry is swallowed and the call returns normally
transform_swallowsFault(self, tmp, source, destination) ==
    LET found == getProjection(source)
    IN  IF found = << >>
        THEN [ self |-> self, tmpTransform |-> tmp, fault |-> "none" ]
        ELSE LET pixelExtent == found[1].extent
                 projectedExtent == found[1].worldExtent
                 scale == getHeight(projectedExtent) \div getHeight(pixelExtent)
                 composed == composeTransform(tmp, projectedExtent[1], projectedExtent[4],
                                              scale, -scale, 0, 0)
             IN  [ self |-> [ self EXCEPT !.flatCoordinates_ =
                                transform2D(self.flatCoordinates_, 0,
                                            Len(self.flatCoordinates_), Stride, composed) ],
                   tmpTransform |-> composed,
                   fault |-> "none" ]

\* transform(source, destination): the feature and tmpTransform after the call.
\* The lookup of the source is the first statement and has no handler around
\* it: when the registry fails, its fault leaves transform before anything is
\* written
transform(self, tmp, source, destination) ==
    LET found == getProjection(source)
    IN  IF found = << >>
        THEN [ self |-> self, tmpTransform |-> tmp, fault |-> "ProjectionNotFoundError" ]
        ELSE LET pixelExtent == found[1].extent
                 projectedExtent == ProjectedExtent(found[1], getProjection(destination))
                 scale == getHeight(projectedExtent) \div getHeight(pixelExtent)
                 composed == composeTransform(tmp, projectedExtent[1], projectedExtent[4],
                                              scale, -scale, 0, 0)
             IN  [ self |-> [ self EXCEPT !.flatCoordinates_ =
                                transform2D(self.flatCoordinates_, 0,
                                            Len(self.flatCoordinates_), Stride, composed) ],
                   tmpTransform |-> composed,
                   fault |-> "none" ]

\* ----------------------------------------------------------- the state
VARIABLES
    feature,       \* the RenderFeature: its fields
    tmpTransform,  \* the module-level transform that transform() composes into
    op,            \* the call made last: its name, arguments, result and fault,
                   \* the cache slots it wrote, and whether it was a further
                   \* call of a cached accessor (see returned)
    returned,      \* for each cached accessor, what its first call since
                   \* transform last wrote the buffer returned (Unset when
                   \* there was no call since)
    nTransforms,   \* how often transform wrote a buffer
    past,          \* of feature: the buffer it was constructed with, and the
                   \* sources of the transforms that wrote its buffer, in order
    feature2,      \* a second RenderFeature, built on a buffer of its own
    receiver       \* the feature the last call was made on: 1 (feature) or 2

vars ==
    << feature, tmpTransform, op, returned, nTransforms, past, feature2, receiver >>

CachedAccessors ==
    { "getExtent", "getFlatInteriorPoint", "getFlatInteriorPoints",
      "getFlatMidpoint", "getFlatMidpoints" }

\* the keys a caller asks get() for
Keys == { "name", "layer", "constructor" }

NoProperties == [ k \in {} |-> undefined ]

\* the features a decoder hands over: for each geometry type a buffer of even
\* coordinates with axis-aligned consecutive vertices, and ends of the shape
\* the type asks for (nested for a MultiPolygon, flat otherwise)
Templates ==
    { [ type |-> POINT, flatCoordinates |-> << 2, 4 >>, ends |-> << 2 >>,
        properties |-> NoProperties, id |-> undefined ],
      [ type |-> MULTI_POINT, flatCoordinates |-> << 4, 2, 0, 2 >>, ends |-> << 2, 4 >>,
        properties |-> [ name |-> "a" ], id |-> "7" ],
      [ type |-> LINE_STRING, flatCoordinates |-> << 0, 0, 4, 0, 4, 2 >>, ends |-> << 6 >>,
        properties |-> [ name |-> "b" ], id |-> undefined ],
      [ type |-> LINE_STRING, flatCoordinates |-> << 2, 0, 2, 4, 6, 4 >>, ends |-> << 6 >>,
        properties |-> NoProperties, id |-> "5" ],
      [ type |-> LINE_STRING, flatCoordinates |-> << 0, 0, 10, 0 >>, ends |-> << 4 >>,
        properties |-> NoProperties, id |-> "10" ],
      [ type |-> LINE_STRING, flatCoordinates |-> << 0, 0, 10, 0, 10, 10 >>,
        ends |-> << 6 >>, properties |-> NoProperties, id |-> "11" ],
      [ type |-> MULTI_LINE_STRING,
        flatCoordinates |-> << 4, 4, 0, 4, 0, 2, 2, 2, 2, 0 >>, ends |-> << 4, 10 >>,
        properties |-> NoProperties, id |-> "8" ],
      [ type |-> POLYGON,
        flatCoordinates |-> << 0, 0, 4, 0, 4, 2, 0, 2, 0, 0 >>, ends |-> << 10 >>,
        properties |-> [ name |-> "c", layer |-> "l" ], id |-> undefined ],
      [ type |-> POLYGON,
        flatCoordinates |-> << 0, 2, 0, 0, 8, 0, 8, 8, 0, 8, 0, 2,
                               2, 2, 2, 6, 4, 6, 4, 2, 2, 2 >>,
        ends |-> << 12, 22 >>,
        properties |-> NoProperties, id |-> "9" ],
      [ type |-> MULTI_POLYGON,
        flatCoordinates |-> << 0, 0, 2, 0, 2, 2, 0, 2, 0, 0,
                               4, 0, 6, 0, 6, 4, 4, 4, 4, 0 >>,
        ends |-> << << 10 >>, << 20 >> >>,
        properties |-> [ name |-> "d" ], id |-> undefined ] }

\* the ends of the feature are flat (offsets), not nested (one sequence of
\* offsets per polygon)
FlatEnds(self) == self.type_ # MULTI_POLYGON

Call(name, arg, ret, computed, fault, again) ==
    [ name |-> name, arg |-> arg, ret |-> ret, computed |-> computed, fault |-> fault,
      again |-> again ]

\* the module is loaded and two features are constructed from t and u
Start(t, u) ==
    /\ feature = RenderFeature(t.type, t.flatCoordinates, t.ends, t.properties, t.id)
    /\ feature2 = RenderFeature(u.type, u.flatCoordinates, u.ends, u.properties, u.id)
    /\ past = [ flatCoordinates |-> t.flatCoordinates, sources |-> << >> ]
    /\ tmpTransform = createTransform
    /\ op = Call("new", << >>, undefined, {}, "none", FALSE)
    /\ returned = [ a \in CachedAccessors |-> Unset ]
    /\ nTransforms = 0
    /\ receiver = 1

\* only the first feature is called: the second one is a copy that stays
Init == \E t \in Templates : Start(t, t)

\* a call of an accessor: the feature becomes what the call leaves
Accessor(name, arg, call) ==
    /\ feature' = call.self
    /\ op' = Call(name, arg, call.ret, call.computed, "none",
                   name \in CachedAccessors /\ IsSet(returned[name]))
    /\ returned' = IF name \in CachedAccessors /\ ~ IsSet(returned[name])
                   THEN [ returned EXCEPT ![name] = << call.ret >> ]
                   ELSE returned
    /\ receiver' = 1
    /\ UNCHANGED << tmpTransform, nTransforms, past, feature2 >>

Get == \E key \in Keys : Accessor("get", << key >>, get(feature, key))

GetExtent == Accessor("getExtent", << >>, getExtent(feature))

GetFlatInteriorPoint ==
    /\ FlatEnds(feature)
    /\ Accessor("getFlatInteriorPoint", << >>, getFlatInteriorPoint(feature))

GetFlatInteriorPoints ==
    /\ ~ FlatEnds(feature)
    /\ Accessor("getFlatInteriorPoints", << >>, getFlatInteriorPoints(feature))

GetFlatMidpoint == Accessor("getFlatMidpoint", << >>, getFlatMidpoint(feature))

GetFlatMidpoints ==
    /\ FlatEnds(feature)
    /\ Accessor("getFlatMidpoints", << >>, getFlatMidpoints(feature))

GetId == Accessor("getId", << >>, getId(feature))

GetFlatCoordinates == Accessor("getFlatCoordinates", << >>, getFlatCoordinates(feature))

GetGeometry == Accessor("getGeometry", << >>, getGeometry(feature))

GetProperties == Accessor("getProperties", << >>, getProperties(feature))

GetStride == Accessor("getStride", << >>, getStride(feature))

GetType == Accessor("getType", << >>, getType(feature))

GetEnds == Accessor("getEnds", << >>, getEnds(feature))

\* a call of transform on the feature, as long as fewer than max calls wrote
\* its buffer
TransformWithin(max) ==
    /\ nTransforms < max
    /\ \E source \in ProjectionLike, destination \in DOMAIN Projections :
         LET call == transform(feature, tmpTransform, source, destination)
             done == call.fault = "none"
         IN  /\ feature' = call.self
             /\ tmpTransform' = call.tmpTransform
             /\ op' = Call("transform", << source, destination >>, undefined, {}, call.fault,
                         FALSE)
             /\ returned' = IF done THEN [ a \in CachedAccessors |-> Unset ] ELSE returned
             /\ nTransforms' = IF done THEN nTransforms + 1 ELSE nTransforms
             /\ past' = IF done THEN [ past EXCEPT !.sources = Append(@, source) ]
                                ELSE past
    /\ receiver' = 1
    /\ UNCHANGED feature2

Transform == TransformWithin(MaxTransforms)

Next ==
    \/ Get
    \/ GetExtent
    \/ GetFlatInteriorPoint
    \/ GetFlatInteriorPoints
    \/ GetFlatMidpoint
    \/ GetFlatMidpoints
    \/ GetId
    \/ GetFlatCoordinates
    \/ GetGeometry
    \/ GetProperties
    \/ GetStride
    \/ GetType
    \/ GetEnds
    \/ Transform

Spec == Init /\ [][Next]_vars

\* transform called repeatedly on a feature, with nothing in between
TransformAgain == TransformWithin(MaxRepeats)

SpecRepeat == Init /\ [][TransformAgain]_vars

\* two features of the module, each built on its own buffer, the first one a
\* Point
InitTwo ==
    \E t, u \in Templates :
        /\ t.type = POINT
        /\ u.flatCoordinates # t.flatCoordinates
        /\ Start(t, u)

\* a call of an accessor on the second feature
AccessorOther(name, arg, call) ==
    /\ feature2' = call.self
    /\ op' = Call(name, arg, call.ret, call.computed, "none", FALSE)
    /\ receiver' = 2
    /\ UNCHANGED << feature, tmpTransform, returned, nTransforms, past >>

GetExtentOther == AccessorOther("getExtent", << >>, getExtent(feature2))

\* a call of transform on the second feature: it goes through the same
\* tmpTransform
TransformOther ==
    /\ nTransforms < MaxShared
    /\ \E source \in ProjectionLike, destination \in DOMAIN Projections :
         LET call == transform(feature2, tmpTransform, source, destination)
             done == call.fault = "none"
         IN  /\ feature2' = call.self
             /\ tmpTransform' = call.tmpTransform
             /\ op' = Call("transform", << source, destination >>, undefined, {}, call.fault,
                         FALSE)
             /\ nTransforms' = IF done THEN nTransforms + 1 ELSE nTransforms
    /\ receiver' = 2
    /\ UNCHANGED << feature, returned, past >>

TransformShared == TransformWithin(MaxShared)

NextTwo ==
    \/ GetExtent
    \/ TransformShared
    \/ GetExtentOther
    \/ TransformOther

SpecTwo == InitTwo /\ [][NextTwo]_vars

\* ------------------------------------------------------------ the claims
\* the pairs of a buffer, counted from 1, and their coordinates
Pairs(flatCoordinates) == 1..(Len(flatCoordinates) \div 2)
X(flatCoordinates, i) == flatCoordinates[2 * i - 1]
Y(flatCoordinates, i) == flatCoordinates[2 * i]

\* the slice [offset, end) of a buffer as a buffer of its own
Slice(flatCoordinates, offset, end) == SubSeq(flatCoordinates, offset + 1, end)

\* e = [minX, minY, maxX, maxY] holds every pair of the buffer and each of its
\* four bounds is attained by some pair
IsBoundingBox(e, flatCoordinates) ==
    /\ Len(e) = 4
    /\ \A i \in Pairs(flatCoordinates) :
         /\ e[1] <= X(flatCoordinates, i) /\ X(flatCoordinates, i) <= e[3]
         /\ e[2] <= Y(flatCoordinates, i) /\ Y(flatCoordinates, i) <= e[4]
    /\ \E i \in Pairs(flatCoordinates) : X(flatCoordinates, i) = e[1]
    /\ \E i \in Pairs(flatCoordinates) : Y(flatCoordinates, i) = e[2]
    /\ \E i \in Pairs(flatCoordinates) : X(flatCoordinates, i) = e[3]
    /\ \E i \in Pairs(flatCoordinates) : Y(flatCoordinates, i) = e[4]

\* the last call was a transform that wrote the buffer
Transformed == op.name = "transform" /\ op.fault = "none"
SourceOf(call) == Projections[call.arg[1]]
DestinationOf(call) == Projections[call.arg[2]]

\* C1: transform invalidates the cache: in every reachable state each set
\* cache slot holds the value derived from the buffer as it is now, and a
\* getExtent() returns the bounding box of the buffer as it is now.
\* The code never clears a slot: after getExtent(), transform(), the slot
\* still holds the extent of the buffer before the transform.
C1_TransformInvalidation ==
    LET flat == feature.flatCoordinates_
        fresh == ExtentOf(feature.type_, flat)
    IN  /\ IsSet(feature.extent_) => feature.extent_[1] = fresh
        /\ op.name = "getExtent" => op.ret = fresh
        /\ IsSet(feature.flatMidpoints_) =>
             feature.flatMidpoints_[1] \in
               { interpolatePoint(flat, 0, Len(flat), Stride) }
               \cup (IF FlatEnds(feature)
                     THEN { MidpointsLoop(flat, feature.ends_, 1, 0, << >>) } ELSE {})
        /\ IsSet(feature.flatInteriorPoints_) =>
             feature.flatInteriorPoints_[1] =
               IF FlatEnds(feature)
               THEN getInteriorPointOfArray(flat, 0, feature.ends_, Stride,
                                            getCenter(fresh), 0)
               ELSE getInteriorPointsOfMultiArray(
                        flat, 0, feature.ends_, Stride,
                        linearRingssCenter(flat, 0, feature.ends_, Stride, 1), 1)

\* C2: idempotence: a further call of a cached accessor, with no transform
\* that wrote the buffer since its first call, returns the value the first
\* call returned and computes nothing (it writes no cache slot).
C2_Idempotence ==
    (op.name \in CachedAccessors /\ op.again) =>
        /\ IsSet(returned[op.name])
        /\ op.ret = returned[op.name][1]
        /\ op.computed = {}

\* a second getExtent() was made with no transform in between
C2_Witness == op.name = "getExtent" /\ op.again /\ nTransforms = 0

\* C3: write-once cache slots: no call other than transform changes a cache
\* slot that is set, neither back to unset nor to another value (so in a run
\* without transform each slot is written at most once).
C3_WriteOnce ==
    [][ op'.name # "transform" =>
          /\ IsSet(feature.extent_) => feature'.extent_ = feature.extent_
          /\ IsSet(feature.flatInteriorPoints_) =>
               feature'.flatInteriorPoints_ = feature.flatInteriorPoints_
          /\ IsSet(feature.flatMidpoints_) =>
               feature'.flatMidpoints_ = feature.flatMidpoints_ ]_vars

\* no transform was called, the three slots are set, and an accessor of a set
\* slot was called after that
C3_Witness ==
    /\ nTransforms = 0
    /\ op.name = "getFlatMidpoints" /\ op.computed = {}
    /\ IsSet(feature.extent_) /\ IsSet(feature.flatInteriorPoints_)
    /\ IsSet(feature.flatMidpoints_)

\* C4: extent of a feature that is no Point: the call of getExtent that finds
\* the slot unset (the first one on the feature, made by the caller or by
\* getFlatInteriorPoint) stores and returns [minX, minY, maxX, maxY] such that
\* every pair of the buffer lies in the box and each bound is attained.
C4_ExtentCorrect ==
    ("extent_" \in op.computed /\ feature.type_ # POINT
       /\ Len(feature.flatCoordinates_) > 0) =>
        /\ IsBoundingBox(feature.extent_[1], feature.flatCoordinates_)
        /\ op.name = "getExtent" => op.ret = feature.extent_[1]

\* getExtent() computed the extent of a buffer of several pairs, here after a
\* transform
C4_Witness ==
    /\ op.name = "getExtent" /\ "extent_" \in op.computed
    /\ feature.type_ = MULTI_LINE_STRING /\ nTransforms = 1

\* C5: extent of a Point: on a feature of type Point with buffer [x, y],
\* getExtent() returns [x, y, x, y].
\* Fails by the stale cache of C1: a getExtent() after getExtent(), transform()
\* returns the box of the point before the transform.
C5_PointExtent ==
    (op.name = "getExtent" /\ feature.type_ = POINT
       /\ Len(feature.flatCoordinates_) = 2) =>
        op.ret = << feature.flatCoordinates_[1], feature.flatCoordinates_[2],
                    feature.flatCoordinates_[1], feature.flatCoordinates_[2] >>

\* C6 as claimed: transform maps a pair at the top-left pixel of the source's
\* pixel extent to the top-left corner (minX, maxY) of the world extent of the
\* destination.
C6_TopLeftToDestination ==
    [][ Transformed' =>
          \A i \in Pairs(feature.flatCoordinates_) :
            ( /\ X(feature.flatCoordinates_, i) = SourceOf(op').extent[1]
              /\ Y(feature.flatCoordinates_, i) = SourceOf(op').extent[2] ) =>
            ( /\ X(feature'.flatCoordinates_, i) = DestinationOf(op').worldExtent[1]
              /\ Y(feature'.flatCoordinates_, i) = DestinationOf(op').worldExtent[4] )
      ]_vars

\* C6 amended: transform maps a pair at the pixel origin (0, 0), the top-left
\* pixel of a pixel extent that starts at the origin, to the top-left corner
\* (minX, maxY) of the world extent of the source projection, and inverts the
\* y axis: of two pairs the one with the greater y before has the smaller y after.
C6_TopLeftToSource ==
    [][ Transformed' =>
          /\ \A i \in Pairs(feature.flatCoordinates_) :
               ( X(feature.flatCoordinates_, i) = 0 /\ Y(feature.flatCoordinates_, i) = 0 ) =>
               ( /\ X(feature'.flatCoordinates_, i) = SourceOf(op').worldExtent[1]
                 /\ Y(feature'.flatCoordinates_, i) = SourceOf(op').worldExtent[4] )
          /\ \A i, j \in Pairs(feature.flatCoordinates_) :
               Y(feature.flatCoordinates_, i) < Y(feature.flatCoordinates_, j) =>
               Y(feature'.flatCoordinates_, i) > Y(feature'.flatCoordinates_, j)
      ]_vars

\* a transform wrote a buffer that held the pixel origin (that pair is now at
\* the top-left corner of the source's world extent) and pairs of different y
C6_Witness ==
    /\ Transformed
    /\ \E i \in Pairs(feature.flatCoordinates_) :
         /\ X(feature.flatCoordinates_, i) = SourceOf(op).worldExtent[1]
         /\ Y(feature.flatCoordinates_, i) = SourceOf(op).worldExtent[4]
    /\ \E i, j \in Pairs(feature.flatCoordinates_) :
         Y(feature.flatCoordinates_, i) # Y(feature.flatCoordinates_, j)

\* C7 as claimed: the scale transform applies is the height of the world
\* extent of the destination projection over the height of the pixel extent of
\* the source projection.
C7_ScaleFromDestination ==
    Transformed =>
        tmpTransform[1] = getHeight(DestinationOf(op).worldExtent)
                          \div getHeight(SourceOf(op).extent)

\* C7 amended: the scale s transform applies is the height of the world extent
\* of the source projection over the height of the pixel extent of the source
\* projection; tmpTransform becomes [s, 0, 0, -s, minX, maxY] of that world
\* extent and every pair (x, y) becomes (minX + s * x, maxY - s * y): what is
\* written depends on the source argument alone, not on the destination.
C7_ScaleFromSource ==
    [][ Transformed' =>
          LET W == SourceOf(op').worldExtent
              s == getHeight(W) \div getHeight(SourceOf(op').extent)
          IN  /\ tmpTransform' = << s, 0, 0, -s, W[1], W[4] >>
              /\ Len(feature'.flatCoordinates_) = Len(feature.flatCoordinates_)
              /\ \A i \in Pairs(feature.flatCoordinates_) :
                   /\ X(feature'.flatCoordinates_, i) = W[1] + s * X(feature.flatCoordinates_, i)
                   /\ Y(feature'.flatCoordinates_, i) = W[4] - s * Y(feature.flatCoordinates_, i)
      ]_vars

\* a transform wrote the buffer with a destination whose world extent has
\* another height than the source's
C7_Witness ==
    /\ Transformed
    /\ getHeight(DestinationOf(op).worldExtent) # getHeight(SourceOf(op).worldExtent)

\* C8: multi-ring midpoints: getFlatMidpoints() on a feature with flat ends
\* [e1, ..., en] and the midpoint slot unset returns n pairs, the i-th being the
\* point at half the length of the slice [e(i-1), e(i)), e0 = 0, computed from
\* that slice alone.
C8_MultiRingMidpoints ==
    (op.name = "getFlatMidpoints" /\ "flatMidpoints_" \in op.computed) =>
        LET ends == feature.ends_
            flat == feature.flatCoordinates_
            start(i) == IF i = 1 THEN 0 ELSE ends[i - 1]
        IN  /\ Len(op.ret) = 2 * Len(ends)
            /\ \A i \in 1..Len(ends) :
                 << op.ret[2 * i - 1], op.ret[2 * i] >> =
                   interpolatePoint(Slice(flat, start(i), ends[i]), 0,
                                    ends[i] - start(i), Stride)
            /\ feature.flatMidpoints_ = << op.ret >>

\* getFlatMidpoints() computed the midpoints of two rings
C8_Witness ==
    /\ op.name = "getFlatMidpoints" /\ "flatMidpoints_" \in op.computed
    /\ Len(feature.ends_) = 2

\* C9: only transform changes the geometry: a call of any accessor leaves the
\* buffer, the ends, the type, the identifier and the properties as they were;
\* transform leaves the length of the buffer, the ends, the type, the
\* identifier and the properties as they were.
C9_OnlyTransformMutates ==
    [][ /\ feature'.ends_ = feature.ends_
        /\ feature'.type_ = feature.type_
        /\ feature'.id_ = feature.id_
        /\ feature'.properties_ = feature.properties_
        /\ Len(feature'.flatCoordinates_) = Len(feature.flatCoordinates_)
        /\ op'.name # "transform" => feature'.flatCoordinates_ = feature.flatCoordinates_
      ]_vars

\* every cached accessor that fits the feature was called, a transform wrote
\* the buffer, and an accessor was called after it
C9_Witness ==
    /\ nTransforms = 1 /\ op.name = "getFlatMidpoints"
    /\ IsSet(feature.extent_) /\ IsSet(feature.flatInteriorPoints_)
    /\ feature.flatCoordinates_ \notin { t.flatCoordinates : t \in Templates }

\* C10: get(key) returns the mapped value for a key of the property mapping
\* and undefined for any other key, without a fault.
\* this.properties_[key] also finds what the mapping inherits from
\* Object.prototype: get("constructor") returns a function.
C10_MissingKey ==
    op.name = "get" =>
        /\ op.fault = "none"
        /\ op.ret = IF op.arg[1] \in DOMAIN feature.properties_
                    THEN feature.properties_[op.arg[1]]
                    ELSE undefined

\* C11: unresolvable projection: when the registry cannot resolve the source,
\* transform fails with the registry's ProjectionNotFoundError, and the
\* feature (its buffer, its cache slots and its other fields) and tmpTransform
\* are as they were before the call.
C11_UnresolvableProjection ==
    [][ (op'.name = "transform" /\ getProjection(op'.arg[1]) = << >>) =>
          /\ op'.fault = "ProjectionNotFoundError"
          /\ feature' = feature
          /\ tmpTransform' = tmpTransform ]_vars

\* transform failed on a feature whose three cache slots were set
C11_Witness ==
    /\ op.name = "transform" /\ op.fault = "ProjectionNotFoundError"
    /\ op.arg[1] \notin DOMAIN Projections
    /\ IsSet(feature.extent_) /\ IsSet(feature.flatInteriorPoints_)
    /\ IsSet(feature.flatMidpoints_)

\* C12: midpoint of a LineString: getFlatMidpoint() returns the point at half
\* the arc length of the whole buffer: (5, 0) for [(0,0), (10,0)] and (10, 0)
\* for [(0,0), (10,0), (10,10)].
\* Holds of the call that finds the slot unset; fails by the stale cache of
\* C1 for a getFlatMidpoint() after getFlatMidpoint(), transform().
C12_Midpoint ==
    (op.name = "getFlatMidpoint" /\ feature.type_ = LINE_STRING) =>
        LET flat == feature.flatCoordinates_
        IN  /\ op.ret = interpolatePoint(flat, 0, Len(flat), Stride)
            /\ flat = << 0, 0, 10, 0 >> => op.ret = << 5, 0 >>
            /\ flat = << 0, 0, 10, 0, 10, 10 >> => op.ret = << 10, 0 >>

\* C13: interior point of a simple convex polygon (one ring, no hole; with
\* axis-aligned edges that is a rectangle): getFlatInteriorPoint() returns a
\* point strictly inside the polygon, on the scan-line through the center of
\* the feature's extent.
\* Holds of the call made before any transform; fails by the stale cache of
\* C1 for a getFlatInteriorPoint() after getFlatInteriorPoint(), transform().
C13_InteriorPoint ==
    (op.name = "getFlatInteriorPoint" /\ feature.type_ = POLYGON
       /\ Len(feature.ends_) = 1) =>
        LET flat == feature.flatCoordinates_
            box == createOrUpdateFromFlatCoordinates(flat, 0, Len(flat), Stride)
        IN  /\ Len(op.ret) = 2
            /\ box[1] < op.ret[1] /\ op.ret[1] < box[3]
            /\ box[2] < op.ret[2] /\ op.ret[2] < box[4]
            /\ op.ret[2] = getCenter(box)[2]

\* C14: no guard against double application: after two successive transform
\* calls with the same source, of world extent W and scale s, every pair
\* (x, y) of the buffer the feature was constructed with is at T(T(x, y)),
\* T(x, y) = (W minX + s * x, W maxY - s * y): the second call is neither
\* skipped nor rejected and each call rewrites every pair.
C14_DoubleApplication ==
    (op.name = "transform" /\ Len(past.sources) = 2
       /\ past.sources[1] = past.sources[2] /\ op.arg[1] = past.sources[2]) =>
        LET W == SourceOf(op).worldExtent
            s == getHeight(W) \div getHeight(SourceOf(op).extent)
            Tx(x) == W[1] + s * x
            Ty(y) == W[4] - s * y
            was == past.flatCoordinates
            now == feature.flatCoordinates_
        IN  /\ op.fault = "none"
            /\ Len(now) = Len(was)
            /\ \A i \in Pairs(was) :
                 /\ X(now, i) = Tx(Tx(X(was, i)))
                 /\ Y(now, i) = Ty(Ty(Y(was, i)))

\* transform was called twice with the same source on a buffer of several pairs
C14_Witness ==
    /\ Transformed /\ past.sources = << "tileA", "tileA" >>
    /\ Len(feature.flatCoordinates_) > 2

\* the feature as the constructor would build it now, from the same buffer and
\* ends: every slot Unset
Fresh(self) ==
    RenderFeature(self.type_, self.flatCoordinates_, self.ends_, self.properties_,
                  self.id_)

\* C15: singular and plural accessors do not interfere: getFlatMidpoints(),
\* getFlatMidpoint(), getFlatInteriorPoints() and getFlatInteriorPoint() each
\* return the value they would return on a fresh feature with the same buffer
\* and ends, whichever accessors were called before (stated here for a feature
\* that was never transformed, where the buffer is still the constructed one).
C15_NoInterference ==
    nTransforms = 0 =>
        /\ op.name = "getFlatMidpoints" => op.ret = getFlatMidpoints(Fresh(feature)).ret
        /\ op.name = "getFlatMidpoint" => op.ret = getFlatMidpoint(Fresh(feature)).ret
        /\ op.name = "getFlatInteriorPoints" =>
             op.ret = getFlatInteriorPoints(Fresh(feature)).ret
        /\ op.name = "getFlatInteriorPoint" =>
             op.ret = getFlatInteriorPoint(Fresh(feature)).ret

\* C16: which slots a call may populate: getFlatInteriorPoint() called with the
\* interior-point slot Unset leaves the extent slot and the interior-point
\* slot both Set (an extent slot that was Set keeps its value) and the
\* midpoint slot as it was; getExtent leaves the other two slots as they
\* were; getFlatInteriorPoints, getFlatMidpoint and getFlatMidpoints leave the
\* extent slot and the other pair's slot as they were; transform leaves all
\* three slots as they were.
C16_SlotsPopulated ==
    [][ LET name == op'.name
            extentKept == feature'.extent_ = feature.extent_
            interiorKept == feature'.flatInteriorPoints_ = feature.flatInteriorPoints_
            midKept == feature'.flatMidpoints_ = feature.flatMidpoints_
        IN  /\ (name = "getFlatInteriorPoint" /\ ~ IsSet(feature.flatInteriorPoints_)) =>
                 /\ IsSet(feature'.extent_) /\ IsSet(feature'.flatInteriorPoints_)
                 /\ IsSet(feature.extent_) => extentKept
                 /\ midKept
            /\ name = "getExtent" =>
                 /\ IsSet(feature'.extent_)
                 /\ interiorKept /\ midKept
            /\ name = "getFlatInteriorPoints" =>
                 /\ IsSet(feature'.flatInteriorPoints_)
                 /\ extentKept /\ midKept
            /\ name \in { "getFlatMidpoint", "getFlatMidpoints" } =>
                 /\ IsSet(feature'.flatMidpoints_)
                 /\ extentKept /\ interiorKept
            /\ name = "transform" => extentKept /\ interiorKept /\ midKept ]_vars

\* getFlatInteriorPoint() found both slots Unset and left both Set, the
\* midpoint slot still being Unset
C16_Witness ==
    /\ op.name = "getFlatInteriorPoint"
    /\ op.computed = { "extent_", "flatInteriorPoints_" }
    /\ IsSet(feature.extent_) /\ IsSet(feature.flatInteriorPoints_)
    /\ ~ IsSet(feature.flatMidpoints_)

\* C17: features are isolated despite the shared tmpTransform: a transform on
\* a feature overwrites all six parameters of tmpTransform from the source
\* (scale s, world extent W) and leaves in the feature's buffer, for every pair
\* (x, y) that was there before the call, (W minX + s * x, W maxY - s * y),
\* whatever earlier transform calls on this or the other feature left in
\* tmpTransform; and no call on one feature changes the buffer or a cache
\* slot of the other.
C17_Isolation ==
    [][ LET before == IF receiver' = 1 THEN feature ELSE feature2
            after == IF receiver' = 1 THEN feature' ELSE feature2'
        IN  /\ receiver' = 1 => feature2' = feature2
            /\ receiver' = 2 => feature' = feature
            /\ (op'.name = "transform" /\ op'.fault = "none") =>
                 LET W == SourceOf(op').worldExtent
                     s == getHeight(W) \div getHeight(SourceOf(op').extent)
                     was == before.flatCoordinates_
                     now == after.flatCoordinates_
                 IN  /\ tmpTransform' = << s, 0, 0, -s, W[1], W[4] >>
                     /\ Len(now) = Len(was)
                     /\ \A i \in Pairs(was) :
                          /\ X(now, i) = W[1] + s * X(was, i)
                          /\ Y(now, i) = W[4] - s * Y(was, i)
                     /\ after = [ before EXCEPT !.flatCoordinates_ = now ] ]_vars

\* transform was called on the second feature with tileB after it was called
\* on the first one with tileA, whose matrix tmpTransform held, and the first
\* feature has a set cache slot
C17_Witness ==
    /\ Transformed /\ receiver = 2 /\ op.arg[1] = "tileB"
    /\ past.sources = << "tileA" >> /\ nTransforms = 2
    /\ IsSet(feature.extent_)
    /\ feature2.flatCoordinates_ # feature.flatCoordinates_

====
